---- MODULE Spec2Model ----
(***************************************************************************)
(* RB helper functions of qiskit.ignis (rb_utils.py): count_gates,         *)
(* gates_per_clifford, coherence_limit and twoQ_clifford_error.            *)
(*                                                                         *)
(* Each function is modelled as a sequential process of its own, with its  *)
(* own specification (SpecGPC, SpecCG, SpecCL, SpecTQ).  The parameters of *)
(* a call are chosen in the initial state and never change; pc is the      *)
(* position in the function body; result is what the call ends with.       *)
(* Variables keep the names of the Python parameters and locals; a         *)
(* variable that the function under study does not have stays Idle.        *)
(*                                                                         *)
(* Floating point values are modelled as exact rationals <<num, den>> in   *)
(* lowest terms with den > 0; <<0, 0>> stands for NaN and <<1, 0>> for     *)
(* +inf, the values numpy produces for 0/0 and x/0.                        *)
(***************************************************************************)
EXTENDS Integers, Sequences, FiniteSets, TLC

VARIABLES pc, result, loop, basis, qubits, ngates,
          transpiled_circuits_list, clifford_lengths, total_ncliffs,
          qobj, nQ, T1_list, T2_list, T1, T2,
          gate_qubit, gate_err, alpha1Q, alpha2Q

vars == <<pc, result, loop, basis, qubits, ngates,
          transpiled_circuits_list, clifford_lengths, total_ncliffs,
          qobj, nQ, T1_list, T2_list, T1, T2,
          gate_qubit, gate_err, alpha1Q, alpha2Q>>

Idle == "idle"

\* ---------------------------------------------------------------- bounds
\* most circuits in one circuit group / experiments in one qobj
MaxCircs == 2
\* largest nominal Clifford length
MaxCliff == 2
\* largest qubit count passed to coherence_limit
MaxNQ == 3
\* longest T1_list / T2_list
MaxTimes == 3
\* most primitive gates of a two-qubit Clifford decomposition
MaxGates == 2
\* gate errors are the grid points k/ErrDen of [0, 1]
ErrDen == 4

\* ------------------------------------------------------- general helpers
Range(s) == {s[k] : k \in 1..Len(s)}

SeqsUpTo(S, n) == UNION {[1..k -> S] : k \in 0..n}

HasRepeat(s) == \E j, k \in 1..Len(s) : j # k /\ s[j] = s[k]

RECURSIVE GCD(_, _)
GCD(a, b) == IF b = 0 THEN a ELSE GCD(b, a % b)

Abs(n) == IF n < 0 THEN -n ELSE n

\* a rational in lowest terms; non-finite values (den = 0) are kept as is
Norm(r) ==
    IF r[2] = 0 THEN r
    ELSE LET g == GCD(Abs(r[1]), r[2]) IN <<r[1] \div g, r[2] \div g>>

Zero == <<0, 1>>
One == <<1, 1>>
NaN == <<0, 0>>
Inf == <<1, 0>>

\* Python/numpy true division of a float (or int) cell by a non-negative
\* integer: x/0 is inf, 0/0 is nan (numpy warns, it does not raise), and
\* nan and inf stay what they are.
TrueDiv(r, n) ==
    IF r[2] = 0 THEN r
    ELSE IF n = 0 THEN (IF r[1] = 0 THEN NaN ELSE Inf)
    ELSE Norm(<<r[1], r[2] * n>>)

Raise(e) == [kind |-> "raise", value |-> e]
Return(v) == [kind |-> "return", value |-> v]
NoResult == [kind |-> "none", value |-> Idle]

\* ------------------------------------------------------ circuit inputs
Instr(n, qs) == [name |-> n, qubits |-> qs]

\* a transpiled QuantumCircuit: its .data, as (instr.name, qregs indices)
QuantumCircuit(data) == [type |-> "QuantumCircuit", data |-> data]
\* an experiment of a QasmQobj: its .instructions
QasmQobjExperiment(data) == [type |-> "QasmQobjExperiment", data |-> data]
\* something that is not a QuantumCircuit
NotACircuit == [type |-> "str", data |-> <<>>]

\* circuit bodies: tracked and untracked gate names, tracked and untracked
\* qubits, one- and two-qubit instructions
DataA == <<Instr("u1", <<0>>), Instr("cx", <<0, 1>>)>>
DataB == <<Instr("cx", <<1, 2>>), Instr("measure", <<0>>)>>
DataPool == {DataA, DataB}

ElementPool == {QuantumCircuit(d) : d \in DataPool} \cup {NotACircuit}
ExperimentPool == {QasmQobjExperiment(d) : d \in DataPool}

ListGroup(items) == [type |-> "list", items |-> items]
QasmQobj(exps) == [type |-> "QasmQobj", items |-> exps]

GroupPool ==
    {ListGroup(s) : s \in SeqsUpTo(ElementPool, MaxCircs)}
    \cup {QasmQobj(s) : s \in SeqsUpTo(ExperimentPool, MaxCircs)}

GroupCounts == {0, 1, 2}
CircuitsListPool == UNION {[1..k -> GroupPool] : k \in GroupCounts}

BasisPool == {<<"u1">>, <<"u1", "cx">>, <<"cx", "cx">>}
QubitsPool == {<<0>>, <<0, 1>>, <<0, 0>>}
LengthsPool == {<<>>, <<1>>, <<1, MaxCliff>>}

\* =================================================== gates_per_clifford
\* mutant: {qubit: {} for qubit in qubits}, the inner keys left to be
\* created on first use
NewNgatesNoInnerKeys(qs, bs) == [q \in Range(qs) |-> [b \in {} |-> Zero]]

\* ngates = {qubit: {base: 0 for base in basis} for qubit in qubits}
NewNgates(qs, bs) == [q \in Range(qs) |-> [b \in Range(bs) |-> Zero]]

\* mutant: ngates[q][name] = ngates[q].get(name, 0) + 1, which records a
\* gate that is not in basis instead of passing over it
TryIncrementGetDefault(ng, q, name) ==
    IF q \in DOMAIN ng
    THEN [ng EXCEPT ![q] =
            [n \in DOMAIN ng[q] \cup {name} |->
                IF n = name
                THEN (IF name \in DOMAIN ng[q] THEN <<ng[q][name][1] + 1, 1>> ELSE One)
                ELSE ng[q][n]]]
    ELSE ng

\* try: ngates[q][name] += 1   except KeyError: pass
TryIncrement(ng, q, name) ==
    IF q \in DOMAIN ng /\ name \in DOMAIN ng[q]
    THEN [ng EXCEPT ![q][name] = <<@[1] + 1, 1>>]
    ELSE ng

RECURSIVE SumPlusOne(_)
SumPlusOne(ls) ==
    IF Len(ls) = 0 THEN 0 ELSE (Head(ls) + 1) + SumPlusOne(Tail(ls))

\* len(transpiled_circuits_list) * np.sum(np.array(clifford_lengths) + 1)
TotalNcliffs(tcl, ls) == Len(tcl) * SumPlusOne(ls)

\* ngates[qubit][base] /= total_ncliffs
DivideCell(ng, q, b, total) == [ng EXCEPT ![q][b] = TrueDiv(@, total)]

InitGPC ==
    /\ transpiled_circuits_list \in CircuitsListPool
    /\ clifford_lengths \in LengthsPool
    /\ basis \in BasisPool
    /\ qubits \in QubitsPool
    /\ pc = "start"
    /\ result = NoResult
    /\ loop = <<>>
    /\ ngates = Idle
    /\ total_ncliffs = 0
    /\ qobj = Idle /\ nQ = Idle /\ T1_list = Idle /\ T2_list = Idle
    /\ T1 = Idle /\ T2 = Idle
    /\ gate_qubit = Idle /\ gate_err = Idle
    /\ alpha1Q = Idle /\ alpha2Q = Idle

gpcInputs == <<transpiled_circuits_list, clifford_lengths, basis, qubits>>
gpcOthers == <<qobj, nQ, T1_list, T2_list, T1, T2,
               gate_qubit, gate_err, alpha1Q, alpha2Q>>

\* the loop position <<g, c, i, q>>: group, circuit, instruction, qubit
CurGroup == transpiled_circuits_list[loop[1]]
CurCircuit == CurGroup.items[loop[2]]
CurInstr == CurCircuit.data[loop[3]]
CurQreg == CurInstr.qubits[loop[4]]

InGroup == pc = "count" /\ loop[1] <= Len(transpiled_circuits_list)
InCircuit == InGroup /\ loop[2] <= Len(CurGroup.items)
Recognized ==
    InCircuit /\ (CurGroup.type = "QasmQobj" \/ CurCircuit.type = "QuantumCircuit")
InInstr == Recognized /\ loop[3] <= Len(CurCircuit.data)
InQreg == InInstr /\ loop[4] <= Len(CurInstr.qubits)

\* lines 125-130: build the accumulator; transpiled_circuits_list[0] of an
\* empty list raises IndexError
gpcEnter ==
    /\ pc = "start"
    /\ ngates' = NewNgates(qubits, basis)
    /\ IF Len(transpiled_circuits_list) = 0
       THEN /\ pc' = "done"
            /\ result' = Raise("IndexError")
            /\ loop' = loop
       ELSE /\ pc' = "count"
            /\ result' = result
            /\ loop' = <<1, 1, 1, 1>>
    /\ UNCHANGED <<gpcInputs, total_ncliffs, gpcOthers>>

\* lines 137-141 and 146-150: one target qubit of one instruction
gpcCount ==
    /\ InQreg
    /\ ngates' = TryIncrement(ngates, CurQreg, CurInstr.name)
    /\ loop' = <<loop[1], loop[2], loop[3], loop[4] + 1>>
    /\ UNCHANGED <<pc, result, gpcInputs, total_ncliffs, gpcOthers>>

\* lines 136, 145: next instruction of the circuit
gpcNextInstr ==
    /\ InInstr /\ ~InQreg
    /\ loop' = <<loop[1], loop[2], loop[3] + 1, 1>>
    /\ UNCHANGED <<pc, result, ngates, gpcInputs, total_ncliffs, gpcOthers>>

\* lines 135, 143: next circuit of the group
gpcNextCircuit ==
    /\ Recognized /\ ~InInstr
    /\ loop' = <<loop[1], loop[2] + 1, 1, 1>>
    /\ UNCHANGED <<pc, result, ngates, gpcInputs, total_ncliffs, gpcOthers>>

\* mutant: the element that is not a QuantumCircuit is passed over
gpcSkipUnrecognized ==
    /\ InCircuit /\ ~Recognized
    /\ loop' = <<loop[1], loop[2] + 1, 1, 1>>
    /\ UNCHANGED <<pc, result, ngates, gpcInputs, total_ncliffs, gpcOthers>>

\* lines 151-152: raise TypeError('Input object is not `QuantumCircuit`.')
gpcTypeError ==
    /\ InCircuit /\ ~Recognized
    /\ pc' = "done"
    /\ result' = Raise("TypeError")
    /\ UNCHANGED <<loop, ngates, gpcInputs, total_ncliffs, gpcOthers>>

\* line 132: next circuit group
gpcNextGroup ==
    /\ InGroup /\ ~InCircuit
    /\ loop' = <<loop[1] + 1, 1, 1, 1>>
    /\ UNCHANGED <<pc, result, ngates, gpcInputs, total_ncliffs, gpcOthers>>

\* line 155
gpcTotal ==
    /\ pc = "count" /\ ~InGroup
    /\ total_ncliffs' = TotalNcliffs(transpiled_circuits_list, clifford_lengths)
    /\ pc' = "divide"
    /\ loop' = <<1, 1>>
    /\ UNCHANGED <<result, ngates, gpcInputs, gpcOthers>>

\* lines 157-159: the loop position <<j, k>> indexes the qubits and basis
\* lists, repeated entries included
gpcDivide ==
    /\ pc = "divide"
    /\ loop[1] <= Len(qubits) /\ loop[2] <= Len(basis)
    /\ ngates' = DivideCell(ngates, qubits[loop[1]], basis[loop[2]], total_ncliffs)
    /\ loop' = IF loop[2] < Len(basis) THEN <<loop[1], loop[2] + 1>>
                                       ELSE <<loop[1] + 1, 1>>
    /\ UNCHANGED <<pc, result, gpcInputs, total_ncliffs, gpcOthers>>

\* line 161
gpcReturn ==
    /\ pc = "divide"
    /\ loop[1] > Len(qubits) \/ Len(basis) = 0
    /\ pc' = "done"
    /\ result' = Return(ngates)
    /\ UNCHANGED <<loop, ngates, gpcInputs, total_ncliffs, gpcOthers>>

NextGPC ==
    \/ gpcEnter
    \/ gpcCount
    \/ gpcNextInstr
    \/ gpcNextCircuit
    \/ gpcTypeError
    \/ gpcNextGroup
    \/ gpcTotal
    \/ gpcDivide
    \/ gpcReturn

SpecGPC == InitGPC /\ [][NextGPC]_vars

\* -------------------------------------------- gates_per_clifford: claims
OccInInstr(instr, q, b) ==
    IF instr.name = b
    THEN Cardinality({k \in 1..Len(instr.qubits) : instr.qubits[k] = q})
    ELSE 0

RECURSIVE OccInData(_, _, _)
OccInData(data, q, b) ==
    IF Len(data) = 0 THEN 0
    ELSE OccInInstr(Head(data), q, b) + OccInData(Tail(data), q, b)

RECURSIVE OccInItems(_, _, _)
OccInItems(items, q, b) ==
    IF Len(items) = 0 THEN 0
    ELSE OccInData(Head(items).data, q, b) + OccInItems(Tail(items), q, b)

RECURSIVE OccInList(_, _, _)
OccInList(tcl, q, b) ==
    IF Len(tcl) = 0 THEN 0
    ELSE OccInItems(Head(tcl).items, q, b) + OccInList(Tail(tcl), q, b)

\* number of (instruction, targeted qubit) occurrences of gate b on qubit q
\* over all circuits of all groups of the call
Occurrences(q, b) == OccInList(transpiled_circuits_list, q, b)

Denominator == Len(transpiled_circuits_list) * SumPlusOne(clifford_lengths)

Returned == pc = "done" /\ result.kind = "return"

RateIsOccurrencesOverCliffords ==
    \A q \in Range(qubits), b \in Range(basis) :
        result.value[q][b] = Norm(<<Occurrences(q, b), Denominator>>)

\* C1: the rate returned for each tracked (qubit, gate) is the number of
\* (instruction, targeted qubit) occurrences of the gate on the qubit over
\* all circuits of all groups, divided by
\* (number of groups) x (sum over clifford_lengths of (length + 1)).
C1_RateFormula ==
    (Returned /\ Denominator # 0) => RateIsOccurrencesOverCliffords

\* The same formula, for calls whose qubits and basis lists have no
\* repeated entry (where C1 does hold).
RateFormulaWithoutRepeats ==
    (Returned /\ Denominator # 0 /\ ~HasRepeat(qubits) /\ ~HasRepeat(basis))
        => RateIsOccurrencesOverCliffords

RateFormulaWithoutRepeatsWitness ==
    /\ Returned /\ Denominator # 0
    /\ ~HasRepeat(qubits) /\ ~HasRepeat(basis)
    /\ Len(transpiled_circuits_list) = 2
    /\ \E q \in Range(qubits), b \in Range(basis) : Occurrences(q, b) > 1

\* C10: every accumulated cell is divided by the denominator exactly once,
\* so a call whose qubits or basis list repeats an entry returns, for every
\* (qubit, gate), the same rate as the call without the repetition, that is
\* occurrences / denominator.
C10_RepeatedEntryKeepsRate ==
    (Returned /\ Denominator # 0 /\ (HasRepeat(qubits) \/ HasRepeat(basis)))
        => RateIsOccurrencesOverCliffords

Untracked(instr, q) ==
    instr.name \notin Range(basis) \/ q \notin Range(qubits)

\* C3: processing a target qubit of an instruction whose name is not in
\* basis, or a target qubit that is not in qubits, changes no cell of the
\* accumulator and raises no error (the call goes on counting); so when
\* counting ends each cell holds the occurrences of its tracked pair only,
\* whatever untracked instructions the circuits contain.
C3_SilentIgnore ==
    /\ [][(InQreg /\ Untracked(CurInstr, CurQreg))
            => (ngates' = ngates /\ pc' = "count" /\ result' = result)]_vars
    /\ [](pc = "divide" /\ loop = <<1, 1>>
            => \A q \in Range(qubits), b \in Range(basis) :
                   ngates[q][b] = <<Occurrences(q, b), 1>>)

\* an untracked target qubit has just been passed over, after something
\* was counted
C3_Witness ==
    /\ InInstr /\ loop[4] > 1
    /\ Untracked(CurInstr, CurInstr.qubits[loop[4] - 1])
    /\ \E q \in DOMAIN ngates : \E b \in DOMAIN ngates[q] : ngates[q][b][1] > 0

HasUnrecognized ==
    \E g \in 1..Len(transpiled_circuits_list) :
        /\ transpiled_circuits_list[g].type = "list"
        /\ \E c \in 1..Len(transpiled_circuits_list[g].items) :
               transpiled_circuits_list[g].items[c].type # "QuantumCircuit"

\* C4: if any element of any circuit group is not a QuantumCircuit, the
\* call ends with TypeError and returns nothing, wherever the element is
\* and however many circuits were counted before it.
C4_UnrecognizedRaises ==
    (pc = "done" /\ HasUnrecognized) => result = Raise("TypeError")

\* TypeError raised at the second element of the second group, after
\* gates of earlier circuits were counted
C4_Witness ==
    /\ pc = "done" /\ result = Raise("TypeError")
    /\ loop[1] = 2 /\ loop[2] = 2
    /\ \E q \in DOMAIN ngates : \E b \in DOMAIN ngates[q] : ngates[q][b][1] > 0

KeysAreTracked(ng) ==
    /\ DOMAIN ng = Range(qubits)
    /\ \A q \in DOMAIN ng : DOMAIN ng[q] = Range(basis)

\* C8 as stated: the result has exactly one key per tracked qubit and under
\* it one key per basis gate, the key set is fixed before accumulation and
\* no step changes it, and a never observed (qubit, gate) maps to 0.
C8_ShapeAndDefaultZero ==
    /\ pc # "start" => KeysAreTracked(ngates)
    /\ Returned =>
          /\ KeysAreTracked(result.value)
          /\ \A q \in Range(qubits), b \in Range(basis) :
                 Occurrences(q, b) = 0 => result.value[q][b] = Zero

\* C8 amended: the same, the never observed pair mapping to 0 when the
\* normalization denominator is not zero (it maps to NaN when it is).
C8_ShapeAndDefaultZeroAmended ==
    /\ pc # "start" => KeysAreTracked(ngates)
    /\ Returned =>
          /\ KeysAreTracked(result.value)
          /\ \A q \in Range(qubits), b \in Range(basis) :
                 Occurrences(q, b) = 0 =>
                     result.value[q][b] = (IF Denominator = 0 THEN NaN ELSE Zero)

\* a result with an observed and a never observed pair
C8_Witness ==
    /\ Returned /\ Denominator # 0
    /\ \E q \in Range(qubits), b \in Range(basis) :
           Occurrences(q, b) = 0 /\ result.value[q][b] = Zero
    /\ \E q \in Range(qubits), b \in Range(basis) :
           Occurrences(q, b) > 0 /\ result.value[q][b][1] > 0

\* ========================================================== count_gates
\* most experiments in the qobj is MaxCircs
QobjPool == SeqsUpTo(ExperimentPool, MaxCircs)

\* np.zeros([nexp, len(qubits), len(basis)], dtype=int)
ZerosArray(nexp, qs, bs) ==
    [i \in 1..nexp |-> [q \in 1..Len(qs) |-> [g \in 1..Len(bs) |-> 0]]]

\* basis_ind = {basis[i]: i for i in range(len(basis))}: a later entry of
\* the comprehension overwrites an earlier one with the same key
BasisInd(bs) ==
    [n \in Range(bs) |->
        CHOOSE k \in 1..Len(bs) :
            bs[k] = n /\ \A j \in 1..Len(bs) : bs[j] = n => j <= k]

\* mutant: if qubit == instr.qubits[0], only the first target qubit counts
CountQubitFirstTarget(arr, i, qind, instr, qs, bs) ==
    IF Len(instr.qubits) > 0 /\ qs[qind] = instr.qubits[1]
    THEN [arr EXCEPT ![i][qind][BasisInd(bs)[instr.name]] = @ + 1]
    ELSE arr

\* if qubit in instr.qubits: ngates[i][qind][basis_ind[instr.name]] += 1
CountQubit(arr, i, qind, instr, qs, bs) ==
    IF qs[qind] \in Range(instr.qubits)
    THEN [arr EXCEPT ![i][qind][BasisInd(bs)[instr.name]] = @ + 1]
    ELSE arr

InitCG ==
    /\ qobj \in QobjPool
    /\ basis \in BasisPool
    /\ qubits \in QubitsPool
    /\ pc = "start"
    /\ result = NoResult
    /\ loop = <<>>
    /\ ngates = Idle
    /\ transpiled_circuits_list = Idle /\ clifford_lengths = Idle
    /\ total_ncliffs = Idle
    /\ nQ = Idle /\ T1_list = Idle /\ T2_list = Idle /\ T1 = Idle /\ T2 = Idle
    /\ gate_qubit = Idle /\ gate_err = Idle
    /\ alpha1Q = Idle /\ alpha2Q = Idle

cgInputs == <<qobj, basis, qubits>>
cgOthers == <<transpiled_circuits_list, clifford_lengths, total_ncliffs,
              nQ, T1_list, T2_list, T1, T2,
              gate_qubit, gate_err, alpha1Q, alpha2Q>>

\* the loop position <<i, k, qind>>: experiment, instruction, index in qubits
cgInExperiment == pc = "count" /\ loop[1] <= Len(qobj)
cgInInstr == cgInExperiment /\ loop[2] <= Len(qobj[loop[1]].data)
cgInstr == qobj[loop[1]].data[loop[2]]

\* lines 54-57 (the deprecation warning of line 50 changes no state)
cgEnter ==
    /\ pc = "start"
    /\ ngates' = ZerosArray(Len(qobj), qubits, basis)
    /\ pc' = "count"
    /\ loop' = <<1, 1, 1>>
    /\ UNCHANGED <<result, cgInputs, cgOthers>>

\* line 61, condition false: the instruction is not examined
cgSkipInstr ==
    /\ cgInInstr /\ cgInstr.name \notin Range(basis)
    /\ loop' = <<loop[1], loop[2] + 1, 1>>
    /\ UNCHANGED <<pc, result, ngates, cgInputs, cgOthers>>

\* lines 62-64: one entry of qubits for an instruction of the basis
cgCount ==
    /\ cgInInstr /\ cgInstr.name \in Range(basis)
    /\ loop[3] <= Len(qubits)
    /\ ngates' = CountQubit(ngates, loop[1], loop[3], cgInstr, qubits, basis)
    /\ loop' = <<loop[1], loop[2], loop[3] + 1>>
    /\ UNCHANGED <<pc, result, cgInputs, cgOthers>>

\* line 60: next instruction, the entries of qubits being exhausted
cgNextInstr ==
    /\ cgInInstr /\ cgInstr.name \in Range(basis)
    /\ loop[3] > Len(qubits)
    /\ loop' = <<loop[1], loop[2] + 1, 1>>
    /\ UNCHANGED <<pc, result, ngates, cgInputs, cgOthers>>

\* line 59: next experiment
cgNextExperiment ==
    /\ cgInExperiment /\ ~cgInInstr
    /\ loop' = <<loop[1] + 1, 1, 1>>
    /\ UNCHANGED <<pc, result, ngates, cgInputs, cgOthers>>

\* line 66
cgReturn ==
    /\ pc = "count" /\ ~cgInExperiment
    /\ pc' = "done"
    /\ result' = Return(ngates)
    /\ UNCHANGED <<loop, ngates, cgInputs, cgOthers>>

NextCG ==
    \/ cgEnter
    \/ cgSkipInstr
    \/ cgCount
    \/ cgNextInstr
    \/ cgNextExperiment
    \/ cgReturn

SpecCG == InitCG /\ [][NextCG]_vars

\* ---------------------------------------------------- count_gates: claims
\* number of instructions of an experiment named n whose qubit list has q
InstrCount(exp, n, q) ==
    Cardinality({k \in 1..Len(exp.data) :
                    exp.data[k].name = n /\ q \in Range(exp.data[k].qubits)})

IsArray(arr, n, l, m) ==
    /\ DOMAIN arr = 1..n
    /\ \A i \in 1..n :
          /\ DOMAIN arr[i] = 1..l
          /\ \A q \in 1..l : DOMAIN arr[i][q] = 1..m

\* C2 as stated: the result is an N x L x M array with array[i][q][g] the
\* number of instructions of experiment i whose name is basis[g] and whose
\* qubit list contains qubits[q].
C2_CountArray ==
    Returned =>
        /\ IsArray(result.value, Len(qobj), Len(qubits), Len(basis))
        /\ \A i \in 1..Len(qobj), q \in 1..Len(qubits), g \in 1..Len(basis) :
               result.value[i][q][g] = InstrCount(qobj[i], basis[g], qubits[q])

LastSlot(g) == \A j \in 1..Len(basis) : basis[j] = basis[g] => j <= g

\* C2 amended: the same, for the slot g that is the last position of its
\* gate name in basis; a slot whose name is repeated at a later position
\* stays 0, so that an instruction adds to one gate slot only.
C2_CountArrayAmended ==
    Returned =>
        /\ IsArray(result.value, Len(qobj), Len(qubits), Len(basis))
        /\ \A i \in 1..Len(qobj), q \in 1..Len(qubits), g \in 1..Len(basis) :
               result.value[i][q][g] =
                   IF LastSlot(g)
                   THEN InstrCount(qobj[i], basis[g], qubits[q])
                   ELSE 0

\* a two-qubit instruction of the basis counted once for each of two
\* tracked qubits, in the second of two experiments
C2_Witness ==
    /\ Returned /\ Len(qobj) = 2 /\ qubits = <<0, 1>>
    /\ \E g \in 1..Len(basis) :
           /\ basis[g] = "cx"
           /\ result.value[2][1][g] = 1 /\ result.value[2][2][g] = 1
           /\ \A h \in 1..Len(basis) : h # g => result.value[2][2][h] = 0

\* ====================================================== coherence_limit
\* an optional argument: None, or a list
None == [given |-> FALSE, list |-> <<>>]
Some(l) == [given |-> TRUE, list |-> l]

TimePool == {50, 100}
TimesPool == {None} \cup {Some(l) : l \in SeqsUpTo(TimePool, MaxTimes)}

LengthError == "ValueError: T1 and/or T2 not the right length"
QubitsError == "ValueError: Not a valid number of qubits"

\* 2*T1 on a numpy array
Twice(l) == [k \in 1..Len(l) |-> 2 * l[k]]

\* The returned number is exp() of the decay times and gatelen and is kept
\* symbolic: the formula used (lines 195-196 or 200-211) and its arguments.
CoherenceErr(formula, t1, t2) == <<formula, t1, t2>>

InitCL ==
    /\ nQ \in 0..MaxNQ
    /\ T1_list \in TimesPool
    /\ T2_list \in TimesPool
    /\ pc = "start"
    /\ result = NoResult
    /\ T1 = None /\ T2 = None
    /\ loop = Idle /\ basis = Idle /\ qubits = Idle /\ ngates = Idle
    /\ transpiled_circuits_list = Idle /\ clifford_lengths = Idle
    /\ total_ncliffs = Idle /\ qobj = Idle
    /\ gate_qubit = Idle /\ gate_err = Idle
    /\ alpha1Q = Idle /\ alpha2Q = Idle

clInputs == <<nQ, T1_list, T2_list>>
clOthers == <<loop, basis, qubits, ngates, transpiled_circuits_list,
              clifford_lengths, total_ncliffs, qobj,
              gate_qubit, gate_err, alpha1Q, alpha2Q>>

\* lines 181-186.  np.array(None) is a 0-d array: 2*T1 on it raises
\* TypeError (int * NoneType).
clConvert ==
    /\ pc = "start"
    /\ T1' = T1_list
    /\ IF T2_list.given
       THEN T2' = T2_list /\ pc' = "validate" /\ result' = result
       ELSE IF T1_list.given
            THEN /\ T2' = Some(Twice(T1_list.list))
                 /\ pc' = "validate" /\ result' = result
            ELSE T2' = T2 /\ pc' = "done" /\ result' = Raise("TypeError")
    /\ UNCHANGED <<clInputs, clOthers>>

\* mutant: "and" for "or" in the length test
clValidateBothWrong ==
    /\ pc = "validate"
    /\ IF ~T1.given
       THEN pc' = "done" /\ result' = Raise("TypeError")
       ELSE IF Len(T1.list) # nQ /\ Len(T2.list) # nQ
            THEN pc' = "done" /\ result' = Raise(LengthError)
            ELSE pc' = "compute" /\ result' = result
    /\ UNCHANGED <<T1, T2, clInputs, clOthers>>

\* lines 188-189.  len() of the 0-d array np.array(None) raises TypeError.
clValidate ==
    /\ pc = "validate"
    /\ IF ~T1.given
       THEN pc' = "done" /\ result' = Raise("TypeError")
       ELSE IF Len(T1.list) # nQ \/ Len(T2.list) # nQ
            THEN pc' = "done" /\ result' = Raise(LengthError)
            ELSE pc' = "compute" /\ result' = result
    /\ UNCHANGED <<T1, T2, clInputs, clOthers>>

\* mutant: "else" for "elif nQ == 2", every other count taking the
\* two-qubit formula
clComputeElseTwoQ ==
    /\ pc = "compute"
    /\ pc' = "done"
    /\ result' = IF nQ = 1 THEN Return(CoherenceErr("1Q", T1.list, T2.list))
                 ELSE Return(CoherenceErr("2Q", T1.list, T2.list))
    /\ UNCHANGED <<T1, T2, clInputs, clOthers>>

\* lines 191-216
clCompute ==
    /\ pc = "compute"
    /\ pc' = "done"
    /\ result' = IF nQ = 1 THEN Return(CoherenceErr("1Q", T1.list, T2.list))
                 ELSE IF nQ = 2 THEN Return(CoherenceErr("2Q", T1.list, T2.list))
                 ELSE Raise(QubitsError)
    /\ UNCHANGED <<T1, T2, clInputs, clOthers>>

NextCL ==
    \/ clConvert
    \/ clValidate
    \/ clCompute

SpecCL == InitCL /\ [][NextCL]_vars

\* ------------------------------------------------ coherence_limit: claims
\* C5 as stated: for every qubit count that is not 1 or 2 the call (with
\* a T1 list supplied) fails with 'Not a valid number of qubits'.
C5_UnsupportedCount ==
    (pc = "done" /\ nQ \notin {1, 2} /\ T1_list.given)
        => result = Raise(QubitsError)

LengthsMatch ==
    /\ T1_list.given /\ Len(T1_list.list) = nQ
    /\ T2_list.given => Len(T2_list.list) = nQ

\* C5 amended: for every qubit count that is not 1 or 2 the call fails; it
\* fails with 'Not a valid number of qubits' when the T1 list, and the T2
\* list when one is given, have nQ entries, the lengths being validated
\* first.
C5_UnsupportedCountAmended ==
    (pc = "done" /\ nQ \notin {1, 2}) =>
        /\ result.kind = "raise"
        /\ LengthsMatch => result = Raise(QubitsError)

\* qubit count 3 with three T1 and three T2 values
C5_Witness ==
    /\ pc = "done" /\ nQ = 3 /\ LengthsMatch /\ T2_list.given
    /\ result = Raise(QubitsError)

\* C6: whenever the length of the T1 list, or of the T2 list when one is
\* given, differs from nQ, the call fails with the length-mismatch error
\* and computes no value; when T2_list is omitted T2 is 2 x T1 and only the
\* length of the T1 list decides.
C6_LengthMismatch ==
    /\ (pc = "done" /\ T1_list.given
          /\ (Len(T1_list.list) # nQ
                \/ (T2_list.given /\ Len(T2_list.list) # nQ)))
          => result = Raise(LengthError)
    /\ (pc \in {"validate", "compute", "done"} /\ T1_list.given /\ ~T2_list.given)
          => /\ T2 = Some(Twice(T1_list.list))
             /\ (pc = "done" /\ Len(T1_list.list) = nQ) => result # Raise(LengthError)

\* two T1 values and one T2 value for two qubits
C6_Witness ==
    /\ pc = "done" /\ nQ = 2 /\ T1_list.given /\ T2_list.given
    /\ Len(T1_list.list) = 2 /\ Len(T2_list.list) = 1
    /\ result = Raise(LengthError)

\* ================================================== twoQ_clifford_error
\* exact rational arithmetic on <<num, den>>, den > 0
RAdd(a, b) == Norm(<<a[1] * b[2] + b[1] * a[2], a[2] * b[2]>>)
RSub(a, b) == Norm(<<a[1] * b[2] - b[1] * a[2], a[2] * b[2]>>)
RMul(a, b) == Norm(<<a[1] * b[1], a[2] * b[2]>>)
RLeq(a, b) == a[1] * b[2] <= b[1] * a[2]
Rat(n, d) == Norm(<<n, d>>)

RECURSIVE RPow(_, _)
RPow(a, n) == IF n = 0 THEN One ELSE RMul(a, RPow(a, n - 1))

ErrGrid == {Rat(k, ErrDen) : k \in 0..ErrDen}
NGatePool == {0, 1, 2}
GateQubitPool == {0, 1, -1}

\* mutant: the single-qubit coefficient 2 used for the two-qubit gate
Factor2QCoefficientTwo(err, ngate) ==
    RPow(RSub(One, RMul(Rat(2, 1), err)), ngate)

\* (1-4/3*gate_err[gate_ind])**ngate
Factor2Q(err, ngate) == RPow(RSub(One, RMul(Rat(4, 3), err)), ngate)

\* (1-2*gate_err[gate_ind])**ngate
Factor1Q(err, ngate) == RPow(RSub(One, RMul(Rat(2, 1), err)), ngate)

\* lines 239-243: one iteration, on alphas = <<alpha1Q, alpha2Q>>; the
\* Python list alpha1Q is indexed by the qubit label 0 or 1
GateStep(alphas, ngate, q, err) ==
    IF q = -1
    THEN <<alphas[1], RMul(alphas[2], Factor2Q(err, ngate))>>
    ELSE <<[alphas[1] EXCEPT ![q + 1] = RMul(@, Factor1Q(err, ngate))], alphas[2]>>

\* mutant: the factor 3 of the product term dropped
CliffErrorNoThree(a1Q, a2Q) ==
    LET sum == RAdd(a1Q[1], a1Q[2])
        prod == RMul(a1Q[1], a1Q[2])
        alpha2Q_cliff == RMul(RMul(Rat(1, 5), RAdd(sum, prod)), a2Q)
    IN RMul(RSub(One, alpha2Q_cliff), Rat(3, 4))

\* lines 245-247:
\* alpha2Q_cliff = 1/5*(np.sum(alpha1Q)+3*np.prod(alpha1Q))*alpha2Q
\* return (1-alpha2Q_cliff)*3/4
CliffError(a1Q, a2Q) ==
    LET sum == RAdd(a1Q[1], a1Q[2])
        prod == RMul(a1Q[1], a1Q[2])
        alpha2Q_cliff ==
            RMul(RMul(Rat(1, 5), RAdd(sum, RMul(Rat(3, 1), prod))), a2Q)
    IN RMul(RSub(One, alpha2Q_cliff), Rat(3, 4))

InitTQ ==
    /\ \E n \in 0..MaxGates :
          /\ ngates \in [1..n -> NGatePool]
          /\ gate_qubit \in [1..n -> GateQubitPool]
          /\ gate_err \in [1..n -> ErrGrid]
    /\ pc = "start"
    /\ result = NoResult
    /\ loop = <<>>
    /\ alpha1Q = <<>> /\ alpha2Q = Zero
    /\ basis = Idle /\ qubits = Idle
    /\ transpiled_circuits_list = Idle /\ clifford_lengths = Idle
    /\ total_ncliffs = Idle /\ qobj = Idle
    /\ nQ = Idle /\ T1_list = Idle /\ T2_list = Idle /\ T1 = Idle /\ T2 = Idle

tqInputs == <<ngates, gate_qubit, gate_err>>
tqOthers == <<basis, qubits, transpiled_circuits_list, clifford_lengths,
              total_ncliffs, qobj, nQ, T1_list, T2_list, T1, T2>>

\* lines 235-236
tqEnter ==
    /\ pc = "start"
    /\ alpha1Q' = <<One, One>>
    /\ alpha2Q' = One
    /\ loop' = <<1>>
    /\ pc' = "gates"
    /\ UNCHANGED <<result, tqInputs, tqOthers>>

\* lines 238-243: the iteration gate_ind = loop[1] (1-based here)
tqGate ==
    /\ pc = "gates" /\ loop[1] <= Len(ngates)
    /\ LET alphas == GateStep(<<alpha1Q, alpha2Q>>, ngates[loop[1]],
                              gate_qubit[loop[1]], gate_err[loop[1]])
       IN alpha1Q' = alphas[1] /\ alpha2Q' = alphas[2]
    /\ loop' = <<loop[1] + 1>>
    /\ UNCHANGED <<pc, result, tqInputs, tqOthers>>

\* lines 245-247
tqReturn ==
    /\ pc = "gates" /\ loop[1] > Len(ngates)
    /\ result' = Return(CliffError(alpha1Q, alpha2Q))
    /\ pc' = "done"
    /\ UNCHANGED <<loop, alpha1Q, alpha2Q, tqInputs, tqOthers>>

NextTQ ==
    \/ tqEnter
    \/ tqGate
    \/ tqReturn

SpecTQ == InitTQ /\ [][NextTQ]_vars

\* -------------------------------------------- twoQ_clifford_error: claims
\* the value the function returns on given arguments: the loop of
\* lines 238-243 from iteration i on, followed by lines 245-247
RECURSIVE ErrorFrom(_, _, _, _, _)
ErrorFrom(alphas, ns, qs, errs, i) ==
    IF i > Len(ns) THEN CliffError(alphas[1], alphas[2])
    ELSE ErrorFrom(GateStep(alphas, ns[i], qs[i], errs[i]), ns, qs, errs, i + 1)

ErrorOf(ns, qs, errs) == ErrorFrom(<<<<One, One>>, One>>, ns, qs, errs, 1)

\* no error obtained from errs by raising one gate's error on the grid
\* gives a smaller Clifford error than r
NoRaiseDecreases(r, ok(_, _)) ==
    \A i \in 1..Len(gate_err) : \A e \in ErrGrid :
        (RLeq(gate_err[i], e) /\ ok(i, e)) =>
            RLeq(r, ErrorOf(ngates, gate_qubit, [gate_err EXCEPT ![i] = e]))

AnyError(i, e) == TRUE

\* C7 as stated: for gate errors in [0, 1], raising the error of one gate,
\* the other inputs fixed, does not decrease the returned Clifford error.
C7_Monotone ==
    Returned => NoRaiseDecreases(result.value, AnyError)

\* the error keeps the gate's survival base non-negative: 1 - 2e >= 0 for
\* a single-qubit gate, 1 - 4/3 e >= 0 for the two-qubit gate
SurvivalNonNegative(i, e) ==
    IF gate_qubit[i] = -1 THEN RLeq(e, Rat(3, 4)) ELSE RLeq(e, Rat(1, 2))

\* C7 amended: when every gate error, before and after the increase, is at
\* most 1/2 for a single-qubit gate and at most 3/4 for the two-qubit gate,
\* raising the error of one gate does not decrease the Clifford error.
C7_MonotoneAmended ==
    (Returned /\ \A i \in 1..Len(gate_err) : SurvivalNonNegative(i, gate_err[i]))
        => NoRaiseDecreases(result.value, SurvivalNonNegative)

\* a call with a single-qubit and a two-qubit gate, both with a non-zero
\* count and an error that can still be raised within the range, where
\* raising one of them strictly increases the Clifford error
C7_Witness ==
    /\ Returned /\ Len(ngates) = 2
    /\ \A i \in 1..2 : ngates[i] > 0 /\ SurvivalNonNegative(i, gate_err[i])
    /\ gate_qubit[1] = -1 /\ gate_qubit[2] = 0
    /\ \E e \in ErrGrid :
          /\ RLeq(gate_err[2], e) /\ SurvivalNonNegative(2, e)
          /\ ~RLeq(ErrorOf(ngates, gate_qubit, [gate_err EXCEPT ![2] = e]),
                   result.value)

\* C9: when every gate error is 0 the returned error is 0, for every
\* sequence of gate counts and every assignment of qubit labels; both
\* single-qubit survivals and the two-qubit survival are then 1.
C9_PerfectGates ==
    (Returned /\ \A i \in 1..Len(gate_err) : gate_err[i] = Zero)
        => /\ result.value = Zero
           /\ alpha1Q = <<One, One>> /\ alpha2Q = One

\* two perfect gates, one of them the two-qubit gate, with non-zero counts
C9_Witness ==
    /\ Returned /\ Len(ngates) = 2
    /\ \A i \in 1..2 : gate_err[i] = Zero /\ ngates[i] > 0
    /\ gate_qubit[1] = -1 /\ gate_qubit[2] = 1
    /\ result.value = Zero

====
